---- MODULE Spec2Model ----
(***************************************************************************)
(* Model of pavPattern(xNum, yNum) from Random_Paving_Patterns.py.         *)
(*                                                                         *)
(* Lengths are integers counted in units of 1e-7, so that the literals     *)
(* 0.5, 3.0, 0.001 and 1e-6 of the source are all exact.  Every height the *)
(* program itself produces is a multiple of 0.5, which binary floating     *)
(* point represents and adds exactly, so the integer arithmetic agrees     *)
(* with the interpreter's.                                                 *)
(*                                                                         *)
(* A layer name "Height_Group_" + str(k) is the pair <<"Height_Group_",k>>.*)
(* The Rhino document is the set docLayers of layer names it holds; the    *)
(* random layer colours have no influence on the layout and are left out.  *)
(* rs.AddSrfPt may return no surface: srf is a nondeterministic BOOLEAN.   *)
(***************************************************************************)
EXTENDS Integers, Sequences, FiniteSets, TLC

VARIABLES xNum, yNum, docLayers, y_bases, existing_layers, srfs,
          n, i, max_height, current_y, gap, pc, fails, iters

vars == <<xNum, yNum, docLayers, y_bases, existing_layers, srfs,
          n, i, max_height, current_y, gap, pc, fails, iters>>

\* ---------------------------------------------------------------- bounds
MaxX == 2
MaxY == 2
MaxTiles == 4
MaxPre == 2
MaxFail == 0

\* ------------------------------------------------------------- constants
\* bucket_size = 0.5
bucket_size == 5000000
\* max_r = 3.0
max_r == 30000000
\* the literal 0.5 of lines 32 and 35
base_height == 5000000
\* the loop guard 0.001
EPS_LOOP == 10000
\* the tolerance 1e-6
EPS_EQ == 10

\* int((max_r - 0.5) / bucket_size) + 1
num_buckets == ((max_r - base_height) \div bucket_size) + 1

\* an off-by-one catalog: {i + 1: 0.5 + (i + 1) * bucket_size}
bucket_heights_shifted(index) == base_height + index * bucket_size

\* bucket_heights = {i + 1: 0.5 + i * bucket_size for i in range(num_buckets)}
bucket_heights(index) == base_height + (index - 1) * bucket_size

\* "Height_Group_" + str(bucket_index)
Layer(bucket_index) == <<"Height_Group_", bucket_index>>

Range(s) == {s[k] : k \in 1..Len(s)}

Abs(v) == IF v < 0 THEN -v ELSE v

\* max(y_bases), for a non-empty list
MaxOf(f) == CHOOSE m \in {f[k] : k \in DOMAIN f} : \A k \in DOMAIN f : f[k] <= m

\* the registry update without its elif branch
RegisterLayerNoElif(doc, layers, layer_name) ==
  IF layer_name \notin doc THEN Append(layers, layer_name) ELSE layers

\* lines 46-54: existing_layers after the layer of a drawn bucket is ensured
RegisterLayer(doc, layers, layer_name) ==
  IF layer_name \notin doc
    THEN Append(layers, layer_name)
    ELSE IF layer_name \notin Range(layers)
           THEN Append(layers, layer_name)
           ELSE layers

\* a stacking step that forgets the running height: y1 = r
StackTopReset(y0, r) == r

\* line 57: y1 = y0 + r
StackTop(y0, r) == y0 + r

\* a gap step that does not move: y1 = y0
FitTopStuck(y0, h) == y0

\* line 88: y1 = y0 + h
FitTop(y0, h) == y0 + h

\* a loop guard that also accepts a closed column: while gap >= 0
LoopGuardZero(g) == g >= 0

\* line 77: while gap > 0.001
LoopGuard(g) == g > EPS_LOOP

\* a fit test with no bound on the height: every bucket fits
valid_fits_all(g) == 1..num_buckets

\* a fit test that rejects the exact fit: h < gap
valid_fits_strict(g) == {index \in 1..num_buckets : bucket_heights(index) < g}

\* line 79: bucket indices whose height is <= gap + 1e-6
valid_fits(g) == {index \in 1..num_buckets : bucket_heights(index) <= g + EPS_EQ}

\* a final-tile test with the comparison reversed
is_last_tile_reversed(g, h) == Abs(g - h) > EPS_EQ

\* line 85: is_last_tile = abs(gap - h) < 1e-6
is_last_tile(g, h) == Abs(g - h) < EPS_EQ

\* a panel of the returned list srfs; ok = FALSE is the None that Step 1
\* appends when rs.AddSrfPt gave no surface
Panel(col, y0, y1, layer, kind, bucket, last, ok) ==
  [col |-> col, y0 |-> y0, y1 |-> y1, layer |-> layer, kind |-> kind,
   bucket |-> bucket, last |-> last, ok |-> ok]

\* ------------------------------------------------------------------ Init
\* layers left in the document by earlier runs: Height_Group_1..k
PreLayers(k) == {Layer(b) : b \in 1..k}

\* lines 25-36, up to the first loop test
Init ==
  /\ xNum \in 0..MaxX
  /\ yNum \in 0..MaxY
  /\ xNum * yNum <= MaxTiles
  /\ \E k \in 0..MaxPre : docLayers = PreLayers(k)
  /\ y_bases = [c \in 0..(xNum - 1) |-> 0]
  /\ existing_layers = <<>>
  /\ srfs = <<>>
  /\ n = 0
  /\ i = 0
  /\ max_height = 0
  /\ current_y = 0
  /\ gap = 0
  /\ fails = 0
  /\ iters = 0
  /\ pc = IF xNum > 0 /\ yNum > 0 THEN "stack" ELSE "max"

\* --------------------------------------------------------------- actions
\* lines 39-68: one pass of the inner loop body of Step 1
StackTile ==
  /\ pc = "stack"
  /\ \E bucket_index \in 1..num_buckets, srf \in BOOLEAN :
       /\ (~srf) => fails < MaxFail
       /\ LET r == bucket_heights(bucket_index)
              layer_name == Layer(bucket_index)
              y0 == y_bases[i]
              y1 == StackTop(y0, r)
          IN /\ existing_layers' = RegisterLayer(docLayers, existing_layers, layer_name)
             /\ docLayers' = docLayers \cup {layer_name}
             /\ srfs' = Append(srfs, Panel(i, y0, y1, layer_name, "stack",
                                           bucket_index, FALSE, srf))
             /\ y_bases' = [y_bases EXCEPT ![i] = y1]
             /\ fails' = IF srf THEN fails ELSE fails + 1
  /\ IF i + 1 < xNum
       THEN /\ i' = i + 1
            /\ n' = n
            /\ pc' = "stack"
       ELSE /\ i' = 0
            /\ n' = n + 1
            /\ pc' = IF n + 1 < yNum THEN "stack" ELSE "max"
  /\ UNCHANGED <<xNum, yNum, max_height, current_y, gap, iters>>

\* line 71: max_height = max(y_bases); max of an empty list raises ValueError
ComputeMax ==
  /\ pc = "max"
  /\ IF xNum = 0
       THEN /\ pc' = "ValueError"
            /\ UNCHANGED <<max_height, i>>
       ELSE /\ max_height' = MaxOf(y_bases)
            /\ i' = 0
            /\ pc' = "col"
  /\ UNCHANGED <<xNum, yNum, docLayers, y_bases, existing_layers, srfs,
                 n, current_y, gap, fails, iters>>

\* lines 73-75: the next column is entered
ColumnStart ==
  /\ pc = "col"
  /\ i < xNum
  /\ current_y' = y_bases[i]
  /\ gap' = max_height - y_bases[i]
  /\ iters' = 0
  /\ pc' = "while"
  /\ UNCHANGED <<xNum, yNum, docLayers, y_bases, existing_layers, srfs,
                 n, i, max_height, fails>>

\* lines 77-119: one pass of the while body
GapStep ==
  /\ pc = "while"
  /\ LoopGuard(gap)
  /\ iters' = iters + 1
  /\ IF valid_fits(gap) # {}
       THEN \E bucket_index \in valid_fits(gap), srf \in BOOLEAN :
              /\ (~srf) => fails < MaxFail
              /\ LET h == bucket_heights(bucket_index)
                     last == is_last_tile(gap, h)
                     y0 == current_y
                     y1 == FitTop(y0, h)
                 IN IF srf /\ last /\ existing_layers = <<>>
                      THEN \* random.choice([]) raises IndexError
                           /\ pc' = "IndexError"
                           /\ UNCHANGED <<srfs, current_y, gap, fails>>
                      ELSE /\ IF srf
                                THEN \E layer_name \in
                                         (IF last THEN Range(existing_layers)
                                                  ELSE {Layer(bucket_index)}) :
                                       srfs' = Append(srfs,
                                         Panel(i, y0, y1, layer_name, "fit",
                                               bucket_index, last, TRUE))
                                ELSE srfs' = srfs
                           /\ fails' = IF srf THEN fails ELSE fails + 1
                           /\ current_y' = y1
                           /\ gap' = max_height - y1
                           /\ pc' = "while"
       ELSE IF existing_layers = <<>>
              THEN /\ pc' = "IndexError"
                   /\ UNCHANGED <<srfs, current_y, gap, fails>>
              ELSE \E layer_name \in Range(existing_layers), srf \in BOOLEAN :
                     /\ (~srf) => fails < MaxFail
                     /\ srfs' = IF srf
                                  THEN Append(srfs,
                                         Panel(i, current_y, current_y + gap,
                                               layer_name, "fallback", 0, FALSE, TRUE))
                                  ELSE srfs
                     /\ fails' = IF srf THEN fails ELSE fails + 1
                     \* break: neither current_y nor gap is assigned
                     /\ pc' = "after"
                     /\ UNCHANGED <<current_y, gap>>
  /\ UNCHANGED <<xNum, yNum, docLayers, y_bases, existing_layers,
                 n, i, max_height>>

\* line 77: the while test fails
LoopExit ==
  /\ pc = "while"
  /\ ~LoopGuard(gap)
  /\ pc' = "after"
  /\ UNCHANGED <<xNum, yNum, docLayers, y_bases, existing_layers, srfs,
                 n, i, max_height, current_y, gap, fails, iters>>

\* lines 121-132: the residual guard, then the next value of i
ColumnEnd ==
  /\ pc = "after"
  /\ IF gap >= EPS_LOOP
       THEN IF existing_layers = <<>>
              THEN /\ pc' = "IndexError"
                   /\ UNCHANGED <<srfs, fails, i>>
              ELSE \E filler_layer \in Range(existing_layers), srf \in BOOLEAN :
                     /\ (~srf) => fails < MaxFail
                     /\ srfs' = IF srf
                                  THEN Append(srfs,
                                         Panel(i, current_y, current_y + gap,
                                               filler_layer, "residual", 0, FALSE, TRUE))
                                  ELSE srfs
                     /\ fails' = IF srf THEN fails ELSE fails + 1
                     /\ i' = i + 1
                     /\ pc' = "col"
       ELSE /\ i' = i + 1
            /\ pc' = "col"
            /\ UNCHANGED <<srfs, fails>>
  /\ UNCHANGED <<xNum, yNum, docLayers, y_bases, existing_layers,
                 n, max_height, current_y, gap, iters>>

\* line 134: return srfs
Return ==
  /\ pc = "col"
  /\ i = xNum
  /\ pc' = "done"
  /\ UNCHANGED <<xNum, yNum, docLayers, y_bases, existing_layers, srfs,
                 n, i, max_height, current_y, gap, fails, iters>>

Next ==
  \/ StackTile
  \/ ComputeMax
  \/ ColumnStart
  \/ GapStep
  \/ LoopExit
  \/ ColumnEnd
  \/ Return

Spec == Init /\ [][Next]_vars

\* ------------------------------------------ Step 2 on given column heights
\* Step 2 (lines 70-134) reads only y_bases and existing_layers.  With the
\* catalog of line 35 Step 1 hands it multiples of 0.5 only, so its filler
\* paths are examined on column heights given directly.
\* heights in 1e-7: 3.0, 2.999, 2.7, 2.5000005, 2.2, 1.999999
GapHeights == {30000000, 29990000, 27000000, 25000005, 22000000, 19999990}

GapRegistries == {<<>>, <<Layer(1)>>, <<Layer(2), Layer(6)>>}

\* the state at line 70, for given column heights and a given registry
InitGap ==
  /\ xNum \in 0..MaxX
  /\ yNum = 1
  /\ y_bases \in [0..(xNum - 1) -> GapHeights]
  /\ existing_layers \in GapRegistries
  /\ docLayers = Range(existing_layers)
  /\ srfs = <<>>
  /\ n = yNum
  /\ i = 0
  /\ max_height = 0
  /\ current_y = 0
  /\ gap = 0
  /\ fails = 0
  /\ iters = 0
  /\ pc = "max"

NextGap ==
  \/ ComputeMax
  \/ ColumnStart
  \/ GapStep
  \/ LoopExit
  \/ ColumnEnd
  \/ Return

SpecGap == InitGap /\ [][NextGap]_vars

\* ------------------------------------------------------------ properties
TypeOK ==
  /\ pc \in {"stack", "max", "col", "while", "after", "done", "ValueError", "IndexError"}
  /\ fails \in 0..MaxFail

\* max_height has been assigned (line 71 has run)
InStep2 == pc \in {"col", "while", "after", "done", "IndexError"}

Columns == 0..(xNum - 1)

MinHeight == bucket_heights(1)

CatalogHeights == {bucket_heights(b) : b \in 1..num_buckets}

CeilDiv(a, b) == (a + b - 1) \div b

IsFiller(p) == p.kind \in {"fallback", "residual"}

\* the panels of column c, in order of emission
PanelsOf(c) == SelectSeq(srfs, LAMBDA p : p.col = c)

StackOf(c) == SelectSeq(srfs, LAMBDA p : p.col = c /\ p.kind = "stack")

GapPanelsOf(c) == SelectSeq(srfs, LAMBDA p : p.col = c /\ p.kind # "stack")

\* C1: when gap closing has finished a column, its running height current_y
\* equals max_height within 1e-6; at the end of a run in which every surface
\* was created, the last panel of every column ends at max_height.
C1_ColumnsAligned ==
  /\ (pc = "after" \/ (pc \in {"col", "done"} /\ i > 0))
        => Abs(max_height - current_y) <= EPS_EQ
  /\ (pc = "done" /\ fails = 0)
        => \A c \in Columns :
             LET s == PanelsOf(c)
             IN IF Len(s) = 0 THEN max_height = 0
                ELSE Abs(max_height - s[Len(s)].y1) <= EPS_EQ

\* a finished run of two columns of unequal stacked height
C1_Witness ==
  /\ pc = "done"
  /\ xNum = 2
  /\ fails = 0
  /\ y_bases[0] + 2 * bucket_size <= y_bases[1]
  /\ Len(GapPanelsOf(0)) >= 2

C3_GapLayersRegistered ==
  \A k \in DOMAIN srfs :
    srfs[k].kind # "stack" => srfs[k].layer \in Range(existing_layers)

\* C4: every filler panel has a height strictly between 0 and the smallest
\* catalog height.
C4_FillerBelowCatalog ==
  \A k \in DOMAIN srfs :
    IsFiller(srfs[k]) =>
      /\ srfs[k].y1 - srfs[k].y0 > 0
      /\ \A h \in CatalogHeights : srfs[k].y1 - srfs[k].y0 < h

\* the fallback has emitted a filler of height 0.3 for a column at 2.7
C4_Witness ==
  /\ pc = "done"
  /\ \E k \in DOMAIN srfs :
       /\ srfs[k].kind = "fallback"
       /\ srfs[k].y0 = 27000000
       /\ srfs[k].y1 = max_height

\* C5: a column whose gap at the start of gap closing is <= 0.001 gets no
\* gap-closing panel and no loop iteration; when all columns are equal,
\* gap closing emits nothing.
C5_ClosedColumnUntouched ==
  InStep2 =>
    /\ \A c \in Columns :
         max_height - y_bases[c] <= EPS_LOOP => Len(GapPanelsOf(c)) = 0
    /\ (pc \in {"while", "after"} /\ max_height - y_bases[i] <= EPS_LOOP)
         => iters = 0
    /\ (\A c, d \in Columns : y_bases[c] = y_bases[d])
         => \A k \in DOMAIN srfs : srfs[k].kind = "stack"

\* a finished run where the tallest column stayed as stacked and the other
\* one was raised
C5_Witness ==
  /\ pc = "done"
  /\ xNum = 2
  /\ yNum >= 1
  /\ y_bases[1] = max_height
  /\ Len(GapPanelsOf(1)) = 0
  /\ Len(GapPanelsOf(0)) >= 1

\* C6: with xNum >= 1 and yNum >= 1 the registry is non-empty throughout
\* gap closing, so no random layer choice fails.
C6_RegistryNonEmpty ==
  (xNum >= 1 /\ yNum >= 1 /\ (InStep2 \/ pc = "max"))
     => (existing_layers # <<>> /\ pc # "IndexError")

\* a final tile has drawn its layer from the registry
C6_Witness ==
  /\ yNum >= 1
  /\ \E k \in DOMAIN srfs : srfs[k].kind = "fit" /\ srfs[k].last
  /\ docLayers # Range(existing_layers)

\* C7: the while loop of a column runs at most ceil(initial gap / smallest
\* height) times; every pass that places a catalog panel raises current_y
\* by at least the smallest height and never above max_height + 1e-6.
C7_LoopBounded ==
  pc \in {"while", "after"} =>
    /\ iters <= CeilDiv(max_height - y_bases[i], MinHeight)
    /\ current_y <= max_height + EPS_EQ
    /\ pc = "while" => current_y - y_bases[i] >= iters * MinHeight
    /\ pc = "after" => current_y - y_bases[i] >= (iters - 1) * MinHeight

\* a column that needed three passes
C7_Witness ==
  /\ pc = "after"
  /\ iters = 3
  /\ gap = 0

\* C8: a placed catalog panel that meets the gap within 1e-6 is the last
\* panel of its column and carries a layer of the registry; any other one
\* carries the layer of its own bucket and leaves a gap that keeps the loop
\* running.
C8_FitTagging ==
  InStep2 =>
    \A k \in DOMAIN srfs :
      srfs[k].kind = "fit" =>
        LET p == srfs[k]
            h == p.y1 - p.y0
        IN /\ h = bucket_heights(p.bucket)
           /\ IF Abs((max_height - p.y0) - h) < EPS_EQ
                THEN /\ p.last
                     /\ p.layer \in Range(existing_layers)
                     /\ \A m \in DOMAIN srfs : m > k => srfs[m].col # p.col
                ELSE /\ ~p.last
                     /\ p.layer = Layer(p.bucket)
                     /\ max_height - p.y1 > EPS_LOOP

\* a column closed by a tile of its own bucket layer followed by a final
\* tile on a layer other than its bucket's
C8_Witness ==
  /\ pc = "done"
  /\ \E k, m \in DOMAIN srfs :
       /\ k < m
       /\ srfs[k].col = srfs[m].col
       /\ srfs[k].kind = "fit" /\ ~srfs[k].last
       /\ srfs[m].kind = "fit" /\ srfs[m].last
       /\ srfs[m].layer # Layer(srfs[m].bucket)

\* C9: the stacked panels of a column are contiguous from 0, each of a
\* catalog height, y_bases is the top of the last one, and after stacking
\* each column holds yNum of them.
C9_StackContiguous ==
  /\ \A c \in Columns :
       LET s == StackOf(c)
       IN /\ Len(s) > 0 => s[1].y0 = 0
          /\ \A k \in 2..Len(s) : s[k].y0 = s[k - 1].y1
          /\ \A k \in 1..Len(s) :
               s[k].y1 > s[k].y0 /\ (s[k].y1 - s[k].y0) \in CatalogHeights
          /\ y_bases[c] = IF Len(s) = 0 THEN 0 ELSE s[Len(s)].y1
          /\ pc = "stack" => Len(s) = IF c < i THEN n + 1 ELSE n
          /\ pc # "stack" => Len(s) = yNum
  /\ pc # "stack" =>
       Cardinality({k \in DOMAIN srfs : srfs[k].kind = "stack"}) = xNum * yNum

\* stacking of two rows in two columns has just ended
C9_Witness ==
  /\ pc = "max"
  /\ xNum = 2
  /\ yNum = 2
  /\ Len(StackOf(1)) = 2

\* C10: with the catalog of line 35 every height and gap is a non-negative
\* multiple of 0.5, an open gap always has a catalog fit, and neither filler
\* path emits a panel.
C10_NoFillerInReference ==
  /\ \A c \in Columns : y_bases[c] >= 0 /\ y_bases[c] % base_height = 0
  /\ current_y >= 0 /\ current_y % base_height = 0
  /\ max_height % base_height = 0
  /\ gap >= 0 /\ gap % base_height = 0
  /\ (pc = "while" /\ gap > EPS_LOOP) => valid_fits(gap) # {}
  /\ pc = "after" => gap < EPS_LOOP
  /\ \A k \in DOMAIN srfs : ~IsFiller(srfs[k])

\* a gap is still open after a catalog panel was placed
C10_Witness ==
  /\ pc = "while"
  /\ iters >= 1
  /\ gap > EPS_LOOP
  /\ valid_fits(gap) # {}
====
